---- MODULE Spec2Model ----
(***************************************************************************)
(* Model of the signaling relay of src/index.js: connection admission,     *)
(* rate limiter, message router, cloak rooms (join with the asynchronous   *)
(* bcrypt hash / compare suspension points), messenger peer directory with *)
(* pending matches and their expiry timers, and the resource reclaimer.    *)
(*                                                                         *)
(* Modelling conventions                                                   *)
(*  - A connection object is a natural number; objects are created in      *)
(*    order by the 'connection' event.  ws.id (4 random bytes) is modelled *)
(*    as an injective token, IdOf(c).                                      *)
(*  - readyState is "OPEN", "CLOSING" (ws.close / ws.terminate was called  *)
(*    or the peer started closing; the 'close' event has not been emitted) *)
(*    or "CLOSED" (the 'close' event was emitted and, for an admitted      *)
(*    connection, its handler ran).  'message' events are delivered only   *)
(*    to OPEN connections; a send to a connection that is not OPEN         *)
(*    delivers nothing.                                                    *)
(*  - A room record is a heap object (roomObj) so that a handler suspended *)
(*    on bcrypt.compare keeps its reference after cloakRooms.set replaced  *)
(*    the record stored under the same room id.  Records no handler and no *)
(*    table entry refers to are dropped (garbage).  createdAt is never     *)
(*    read by the program and is not represented.                          *)
(*  - A setTimeout callback runs when the clock reaches its due time: the  *)
(*    clock does not advance past a due timer (other events of the same    *)
(*    instant may still be handled before it).                             *)
(*  - The setInterval callback of the liveness monitor runs when the clock  *)
(*    reaches a multiple of HEARTBEAT_INTERVAL; in the specification that   *)
(*    has the monitor the clock does not advance past a due sweep.  A ping  *)
(*    to a connection that is not OPEN has no effect.                       *)
(*  - sent is the set of messages delivered to each connection by the last *)
(*    step; ev, joinedLog, origPw, find, recent, big and live are history  *)
(*    variables used only by the properties.                               *)
(***************************************************************************)
EXTENDS Integers, Sequences, FiniteSets, Bags, TLC

\* ---------------------------------------------------------------- bounds
MaxConns == 2
MaxFrames == 3
MaxCloses == 1
JoinMaxConns == 3
JoinMaxFrames == 3
AdmMaxConns == 22
AdmMaxCloses == 1
DirMaxConns == 2
DirMaxFrames == 3
DirMaxCloses == 1
DirMaxTime == 450001
TtlMaxConns == 2
TtlMaxFrames == 3
TtlMaxTime == 450001
RateMaxTime == 1001
GateMaxFrames == 3
SigMaxConns == 3
SigMaxFrames == 4
FwdMaxConns == 2
FwdMaxFrames == 3
SizeMaxFrames == 2
HbMaxConns == 2
HbMaxTime == 90000

\* ------------------------------------------------------ program constants
MAX_MESSAGE_SIZE == 65536
HEARTBEAT_INTERVAL == 30000
MaxPerIP == 20
RateWindow == 1000
RateBudget == 50
MatchTTL == 300000
RATE_CLOSE == 1011
SIZE_CLOSE == 1009

\* ------------------------------------------------------------ input sets
None == "undefined"
NoRoom == "no room"
Rooms == {"r1", "r2"}
Passwords == {"p", "q"}
Aliases == {None}
PeerIds == {"X", "Y"}
IPs == {"10.0.0.1"}
AdmIPs == {"10.0.0.1", "10.0.0.2"}
SmallLen == 40
BigLen == 66560

VARIABLES
  now,               \* Date.now()
  conn,              \* the ws objects (index.js 18-28): readyState, ip, isAlive,
                     \* msgCount, msgTs, room, alias, peerId, close code
  connectionsPerIP,  \* index.js 10
  cloakRooms,        \* index.js 9: room id -> room record
  roomObj,           \* the room records {clients, password} (index.js 65-69)
  appClients,        \* index.js 8: namespace -> (peer id -> ws)
  pendingMatches,    \* index.js 11: target peer id -> requester ws
  timers,            \* pending setTimeout callbacks (index.js 145-147)
  tasks,             \* join handlers suspended on an await (index.js 64, 74)
  sent,              \* messages delivered to each connection by the last step
  ev,                \* history: outcome of the join finished by the last step
  joinedLog,         \* history: connections sent `joined` per room id
  origPw,            \* history: password a room id was first created with
  find,              \* history: last find_peer miss per target peer id
  recent,            \* history: frame arrival times per connection
  nframes,           \* history: number of frames handled
  big,               \* history: the connection whose frame of more than
                     \* 64 KiB the last step handled, if any
  sweeps,            \* number of runs of the setInterval callback (182-188)
  live               \* history: per connection, the probe of the last sweep,
                     \* the pongs since, and who the monitor terminated

vars == <<now, conn, connectionsPerIP, cloakRooms, roomObj, appClients,
          pendingMatches, timers, tasks, sent, ev, joinedLog, origPw, find,
          recent, nframes, big, sweeps, live>>

roomVars == <<cloakRooms, roomObj, tasks, joinedLog, origPw>>
dirVars == <<appClients, pendingMatches, timers, find>>
hbVars == <<sweeps, live>>

\* ---------------------------------------------------------------- helpers
Conns == DOMAIN conn

IdOf(c) == "ws" \o ToString(c)

IsOpen(cn, c) == cn[c].readyState = "OPEN"

Range(s) == {s[i] : i \in DOMAIN s}

\* Set.add on an insertion-ordered set
SetAdd(s, x) == IF x \in Range(s) THEN s ELSE Append(s, x)

\* Set.delete on an insertion-ordered set
SetDelete(s, x) == SelectSeq(s, LAMBDA y : y # x)

\* Map.delete
MapDelete(m, k) == [x \in DOMAIN m \ {k} |-> m[x]]

\* Map.set
MapSet(m, k, v) == [x \in DOMAIN m \cup {k} |-> IF x = k THEN v ELSE m[x]]

NoSent(cn) == [c \in DOMAIN cn |-> <<>>]

\* ws.send: nothing is delivered unless the socket is OPEN
Send(cn, s, c, m) == IF IsOpen(cn, c) THEN [s EXCEPT ![c] = Append(@, m)] ELSE s

\* bcrypt.hash(password, 8) and bcrypt.compare(password, digest)
Hash(pw) == "$2b$08$" \o pw

\* a verification that accepts every password
CompareAny(pw, digest) == TRUE

Compare(pw, digest) == digest = "$2b$08$" \o pw

\* room records still referenced by the table or by a suspended handler
Live(cr, tk) ==
  {cr[r] : r \in DOMAIN cr} \cup
  {t.room : t \in {u \in BagToSet(tk) : u.at = "compare"}}

Collect(cr, hp, tk) == [i \in DOMAIN hp \cap Live(cr, tk) |-> hp[i]]

FreshRoom(hp) == CHOOSE i \in 1..(Cardinality(DOMAIN hp) + 1) : i \notin DOMAIN hp

NoEv == [op |-> "none"]

\* no connection object (an absent sender, an absent requester)
NoWs == 0

NoFind == [req |-> NoWs, at |-> 0, regs |-> 0]

\* history of a connection admitted or refused after k sweeps: not probed
\* yet; born and quiet count the sweeps run before its admission and before
\* its last pong (or its admission)
NewLive(k) ==
  [born |-> k, probed |-> FALSE, ponged |-> FALSE, quiet |-> k, reaped |-> FALSE]

\* ------------------------------------------------------------- broadcast
\* a broadcast that does not leave the sender out
broadcastToRoomEcho(cn, cr, hp, s, roomId, msg, sender, targetId) ==
  IF roomId \notin DOMAIN cr THEN s
  ELSE LET clients == Range(hp[cr[roomId]].clients)
           to == {c \in clients : /\ IsOpen(cn, c)
                                  /\ ~(targetId # None /\ IdOf(c) # targetId)}
       IN [c \in DOMAIN s |-> IF c \in to THEN Append(s[c], msg) ELSE s[c]]

\* broadcastToRoom(roomId, messageObj, sender, targetId), evaluated on the
\* table cr / heap hp / connections cn of the moment of the call
broadcastToRoom(cn, cr, hp, s, roomId, msg, sender, targetId) ==
  IF roomId \notin DOMAIN cr THEN s
  ELSE LET clients == Range(hp[cr[roomId]].clients)
           to == {c \in clients : /\ c # sender
                                  /\ IsOpen(cn, c)
                                  /\ ~(targetId # None /\ IdOf(c) # targetId)}
       IN [c \in DOMAIN s |-> IF c \in to THEN Append(s[c], msg) ELSE s[c]]

\* ------------------------------------------------------------- admission
\* a ceiling that admits one connection too many
OverCeilingLate(currentIPCount) == currentIPCount > MaxPerIP + 1

\* line 21: currentIPCount > 20
OverCeiling(currentIPCount) == currentIPCount > MaxPerIP

\* wss.on('connection'): the next connection object, from address ip
Connection(ip) ==
  LET c == Cardinality(Conns) + 1
      currentIPCount == (IF ip \in DOMAIN connectionsPerIP
                         THEN connectionsPerIP[ip] ELSE 0) + 1
  IN /\ IF OverCeiling(currentIPCount)
        THEN /\ conn' = MapSet(conn, c,
                   [readyState |-> "CLOSING", admitted |-> FALSE, ip |-> ip,
                    isAlive |-> FALSE, msgCount |-> 0, msgTs |-> 0,
                    room |-> None, alias |-> None, peerId |-> None,
                    closeCode |-> 0])
             /\ UNCHANGED connectionsPerIP
        ELSE /\ connectionsPerIP' = MapSet(connectionsPerIP, ip, currentIPCount)
             /\ conn' = MapSet(conn, c,
                   [readyState |-> "OPEN", admitted |-> TRUE, ip |-> ip,
                    isAlive |-> TRUE, msgCount |-> 0, msgTs |-> now,
                    room |-> None, alias |-> None, peerId |-> None,
                    closeCode |-> 0])
     /\ sent' = NoSent(conn')
     /\ recent' = MapSet(recent, c, <<>>)
     /\ live' = MapSet(live, c, NewLive(sweeps))
     /\ ev' = NoEv
     /\ big' = NoWs
     /\ UNCHANGED <<now, roomVars, dirVars, nframes, sweeps>>

\* the transport starts closing an open connection (peer close frame,
\* network error): readyState leaves OPEN, 'close' is emitted later
BeginClose(c) ==
  /\ c \in Conns
  /\ IsOpen(conn, c)
  /\ conn' = [conn EXCEPT ![c].readyState = "CLOSING"]
  /\ sent' = NoSent(conn)
  /\ ev' = NoEv
  /\ big' = NoWs
  /\ UNCHANGED <<now, connectionsPerIP, roomVars, dirVars, recent, nframes,
                 hbVars>>

\* ------------------------------------------------------ resource reclaimer
\* limpiarRecursos(ws), room part: the table, heap and deliveries after it
ReclaimRoom(cn, c) ==
  LET r == cn[c].room
  IN IF r # None /\ r \in DOMAIN cloakRooms
     THEN LET rid == cloakRooms[r]
              hp1 == [roomObj EXCEPT ![rid].clients = SetDelete(@, c)]
              s1 == broadcastToRoom(cn, cloakRooms, hp1, NoSent(cn), r,
                      [type |-> "peer_left", peerId |-> IdOf(c)], NoWs, None)
              gone == Len(hp1[rid].clients) = 0
          IN [cr |-> IF gone THEN MapDelete(cloakRooms, r) ELSE cloakRooms,
              hp |-> hp1, s |-> s1, deleted |-> IF gone THEN {r} ELSE {}]
     ELSE [cr |-> cloakRooms, hp |-> roomObj, s |-> NoSent(cn), deleted |-> {}]

\* limpiarRecursos(ws), directory part
ReclaimPeer(cn, c) ==
  IF cn[c].peerId # None /\ "cudi-messenger" \in DOMAIN appClients
  THEN [ac |-> [appClients EXCEPT !["cudi-messenger"] = MapDelete(@, cn[c].peerId)],
        pm |-> [t \in {u \in DOMAIN pendingMatches : pendingMatches[u] # c}
                  |-> pendingMatches[t]]]
  ELSE [ac |-> appClients, pm |-> pendingMatches]

limpiarRecursos(cn, c) ==
  LET rr == ReclaimRoom(cn, c)
      rp == ReclaimPeer(cn, c)
  IN /\ cloakRooms' = rr.cr
     /\ roomObj' = Collect(rr.cr, rr.hp, tasks)
     /\ sent' = rr.s
     /\ joinedLog' = [r \in DOMAIN joinedLog |->
                        IF r \in rr.deleted THEN {} ELSE joinedLog[r]]
     /\ origPw' = [r \in DOMAIN origPw |->
                        IF r \in rr.deleted THEN NoRoom ELSE origPw[r]]
     /\ appClients' = rp.ac
     /\ pendingMatches' = rp.pm

\* the 'close' event of a connection; ws.on('close') runs if it was registered
SocketClosed(c) ==
  /\ c \in Conns
  /\ conn[c].readyState = "CLOSING"
  /\ conn' = [conn EXCEPT ![c].readyState = "CLOSED"]
  /\ ev' = NoEv
  /\ big' = NoWs
  /\ UNCHANGED <<now, tasks, timers, find, recent, nframes, hbVars>>
  /\ IF conn[c].admitted
     THEN LET ip == conn[c].ip
              count == connectionsPerIP[ip] - 1
          IN /\ connectionsPerIP' = IF count <= 0
                                    THEN MapDelete(connectionsPerIP, ip)
                                    ELSE MapSet(connectionsPerIP, ip, count)
             /\ limpiarRecursos(conn', c)
     ELSE /\ sent' = NoSent(conn)
          /\ UNCHANGED <<connectionsPerIP, cloakRooms, roomObj, joinedLog,
                         origPw, appClients, pendingMatches>>

\* ------------------------------------------------------------ room manager
\* a variant of PeersInRoom that forgets to leave the joiner out
PeersInRoomUnfiltered(cn, clients, c) ==
  [i \in DOMAIN clients |-> [id |-> IdOf(clients[i]), alias |-> cn[clients[i]].alias]]

\* Array.from(room.clients).filter(c => c !== ws).map(c => ({id, alias}))
PeersInRoom(cn, clients, c) ==
  LET others == SelectSeq(clients, LAMBDA d : d # c)
  IN [i \in DOMAIN others |-> [id |-> IdOf(others[i]), alias |-> cn[others[i]].alias]]

\* lines 77-93: the join succeeds on room record rid
JoinFinish(cn, cr, hp, tk, c, data, rid, created, arr, og) ==
  LET alias == IF data.alias # None THEN data.alias ELSE "Cloaker"
      cn1 == [cn EXCEPT ![c].room = data.room, ![c].alias = alias]
      hp1 == [hp EXCEPT ![rid].clients = SetAdd(@, c)]
      peersInRoom == PeersInRoom(cn1, hp1[rid].clients, c)
      s1 == Send(cn1, NoSent(cn1), c,
                 [type |-> "joined", room |-> data.room, yourId |-> IdOf(c),
                  peers |-> peersInRoom])
      s2 == broadcastToRoom(cn1, cr, hp1, s1, data.room,
                 [type |-> "peer_joined", peerId |-> IdOf(c), alias |-> alias],
                 c, None)
  IN /\ conn' = cn1
     /\ cloakRooms' = cr
     /\ roomObj' = Collect(cr, hp1, tk)
     /\ tasks' = tk
     /\ sent' = s2
     /\ ev' = [op |-> "accept", ws |-> c, room |-> data.room,
               password |-> data.password, created |-> created, arr |-> arr,
               orig |-> og[data.room], nopw |-> hp[rid].password = None,
               digest |-> hp[rid].password, prior |-> joinedLog[data.room]]
     /\ joinedLog' = [joinedLog EXCEPT ![data.room] =
                        IF IsOpen(cn1, c) THEN @ \cup {c} ELSE @]
     /\ origPw' = og

\* a join is refused with an error message to the caller
JoinError(cn, cr, hp, tk, c, data, text, created, arr, og, digest) ==
  /\ conn' = cn
  /\ cloakRooms' = cr
  /\ roomObj' = Collect(cr, hp, tk)
  /\ tasks' = tk
  /\ sent' = Send(cn, NoSent(cn), c, [type |-> "error", message |-> text])
  /\ ev' = [op |-> "reject", ws |-> c, room |-> data.room,
            password |-> data.password, created |-> created, arr |-> arr,
            orig |-> og[data.room], nopw |-> FALSE,
            digest |-> digest, prior |-> joinedLog[data.room]]
  /\ joinedLog' = joinedLog
  /\ origPw' = og

\* lines 71-76: the password gate on the record stored under data.room
JoinGate(cn, cr, hp, tk, c, data, created, arr, og) ==
  LET rid == cr[data.room]
      room == hp[rid]
  IN IF room.password # None
     THEN IF data.password = None
          THEN JoinError(cn, cr, hp, tk, c, data, "Password required",
                         created, arr, og, room.password)
          ELSE \* await bcrypt.compare(data.password, room.password)
               /\ conn' = cn
               /\ cloakRooms' = cr
               /\ tasks' = tk (+) SetToBag({[ws |-> c, data |-> data,
                                   at |-> "compare", room |-> rid,
                                   digest |-> room.password,
                                   created |-> created, arr |-> arr]})
               /\ roomObj' = Collect(cr, hp, tasks')
               /\ sent' = NoSent(cn)
               /\ ev' = NoEv
               /\ joinedLog' = joinedLog
               /\ origPw' = og
     ELSE JoinFinish(cn, cr, hp, tk, c, data, rid, created, arr, og)

\* cloakRooms.set(data.room, {clients: new Set(), password: passwordHash})
RoomSet(cr, hp, r, passwordHash) ==
  LET rid == FreshRoom(hp)
  IN [cr |-> MapSet(cr, r, rid),
      hp |-> MapSet(hp, rid, [clients |-> <<>>, password |-> passwordHash])]

\* origPw after cloakRooms.set: the password of the first creation is kept
\* while the room id stays in the table
OrigAfterSet(cr, r, pw) ==
  IF r \in DOMAIN cr THEN origPw ELSE [origPw EXCEPT ![r] = pw]

\* handleCloakLogic, case 'join', up to its first suspension point
Join(cn, c, data) ==
  IF data.room = None
  THEN /\ conn' = cn
       /\ sent' = NoSent(cn)
       /\ ev' = NoEv
       /\ UNCHANGED roomVars
  ELSE IF data.room \notin DOMAIN cloakRooms
       THEN IF data.password # None
            THEN \* await bcrypt.hash(data.password, 8)
                 /\ conn' = cn
                 /\ tasks' = tasks (+) SetToBag({[ws |-> c, data |-> data,
                                     at |-> "hash", room |-> 0,
                                     digest |-> None, created |-> TRUE,
                                     arr |-> NoRoom]})
                 /\ sent' = NoSent(cn)
                 /\ ev' = NoEv
                 /\ UNCHANGED <<cloakRooms, roomObj, joinedLog, origPw>>
            ELSE LET n == RoomSet(cloakRooms, roomObj, data.room, None)
                 IN JoinGate(cn, n.cr, n.hp, tasks, c, data, TRUE, NoRoom,
                             OrigAfterSet(cloakRooms, data.room, None))
       ELSE JoinGate(cn, cloakRooms, roomObj, tasks, c, data, FALSE,
                     origPw[data.room], origPw)

\* handleCloakLogic, case 'signal'
Signal(cn, c, data) ==
  /\ conn' = cn
  /\ ev' = [op |-> "signal", ws |-> c, target |-> data.targetPeerId]
  /\ UNCHANGED roomVars
  /\ sent' = IF cn[c].room = None THEN NoSent(cn)
             ELSE broadcastToRoom(cn, cloakRooms, roomObj, NoSent(cn),
                    cn[c].room,
                    [type |-> "signal", targetPeerId |-> data.targetPeerId,
                     fromPeerId |-> IdOf(c)],
                    c, data.targetPeerId)

handleCloakLogic(cn, c, data) ==
  CASE data.type = "join" -> Join(cn, c, data)
    [] data.type = "signal" -> Signal(cn, c, data)
    [] OTHER -> /\ conn' = cn
                /\ sent' = NoSent(cn)
                /\ ev' = NoEv
                /\ UNCHANGED roomVars

\* a handler suspended on bcrypt.hash resumes (lines 64-76)
ResumeHash(t) ==
  /\ BagIn(t, tasks)
  /\ t.at = "hash"
  /\ LET tk == tasks (-) SetToBag({t})
         n == RoomSet(cloakRooms, roomObj, t.data.room, Hash(t.data.password))
     IN JoinGate(conn, n.cr, n.hp, tk, t.ws, t.data, TRUE, NoRoom,
                 OrigAfterSet(cloakRooms, t.data.room, t.data.password))
  /\ big' = NoWs
  /\ UNCHANGED <<now, connectionsPerIP, dirVars, recent, nframes, hbVars>>

\* a handler suspended on bcrypt.compare resumes (lines 74-93)
ResumeCompare(t) ==
  /\ BagIn(t, tasks)
  /\ t.at = "compare"
  /\ LET tk == tasks (-) SetToBag({t})
         match == Compare(t.data.password, t.digest)
     IN IF ~match
        THEN JoinError(conn, cloakRooms, roomObj, tk, t.ws, t.data,
                       "Wrong password", t.created, t.arr, origPw, t.digest)
        ELSE JoinFinish(conn, cloakRooms, roomObj, tk, t.ws, t.data, t.room,
                        t.created, t.arr, origPw)
  /\ big' = NoWs
  /\ UNCHANGED <<now, connectionsPerIP, dirVars, recent, nframes, hbVars>>

\* ---------------------------------------------------------- peer directory
\* the directory after `if (!appClients.has('cudi-messenger')) appClients.set(...)`
WithNamespace(ac) ==
  IF "cudi-messenger" \in DOMAIN ac THEN ac ELSE MapSet(ac, "cudi-messenger", <<>>)

\* history: a find_peer miss for x by c at time t; a register of x
FindMiss(x, c, t) == [find EXCEPT ![x] = [req |-> c, at |-> t, regs |-> 0]]

FindRegistered(x) ==
  [find EXCEPT ![x].regs = IF @ < 2 /\ find[x].req # NoWs THEN @ + 1 ELSE @]

\* handleMessengerLogic, case 'register'
Register(cn, ac, c, data) ==
  IF data.peerId = None
  THEN /\ conn' = cn
       /\ appClients' = ac
       /\ sent' = NoSent(cn)
       /\ UNCHANGED <<pendingMatches, timers, find>>
  ELSE LET x == data.peerId
           cn1 == [cn EXCEPT ![c].peerId = x]
           s1 == Send(cn1, NoSent(cn1), c, [type |-> "registered", peerId |-> x])
       IN /\ conn' = cn1
          /\ appClients' = [ac EXCEPT !["cudi-messenger"] = MapSet(@, x, c)]
          /\ find' = FindRegistered(x)
          /\ UNCHANGED timers
          /\ IF x \in DOMAIN pendingMatches
             THEN LET requesterWs == pendingMatches[x]
                  IN /\ sent' = IF IsOpen(cn1, requesterWs)
                                THEN Send(cn1,
                                       Send(cn1, s1, requesterWs,
                                            [type |-> "peer_found", peerId |-> x]),
                                       c, [type |-> "peer_found",
                                           peerId |-> cn1[requesterWs].peerId])
                                ELSE s1
                     /\ pendingMatches' = MapDelete(pendingMatches, x)
             ELSE /\ sent' = s1
                  /\ UNCHANGED pendingMatches

\* handleMessengerLogic, case 'find_peer'
FindPeer(cn, ac, c, data) ==
  /\ conn' = cn
  /\ appClients' = ac
  /\ IF data.targetPeerId = None
     THEN /\ sent' = NoSent(cn)
          /\ UNCHANGED <<pendingMatches, timers, find>>
     ELSE IF data.targetPeerId \in DOMAIN ac["cudi-messenger"]
     THEN /\ sent' = Send(cn, NoSent(cn), c,
                          [type |-> "peer_found", peerId |-> data.targetPeerId])
          /\ UNCHANGED <<pendingMatches, timers, find>>
     ELSE /\ pendingMatches' = MapSet(pendingMatches, data.targetPeerId, c)
          /\ timers' = timers (+) SetToBag({[target |-> data.targetPeerId,
                                            ws |-> c, due |-> now + MatchTTL]})
          /\ find' = FindMiss(data.targetPeerId, c, now)
          /\ sent' = NoSent(cn)

\* a forward that stamps the target's peer id instead of the sender's
ForwardWrongStamp(cn, ac, c, data) ==
  /\ conn' = cn
  /\ appClients' = ac
  /\ UNCHANGED <<pendingMatches, timers, find>>
  /\ sent' = IF /\ data.targetPeerId # None
                /\ data.targetPeerId \in DOMAIN ac["cudi-messenger"]
             THEN Send(cn, NoSent(cn), ac["cudi-messenger"][data.targetPeerId],
                       [type |-> data.type, targetPeerId |-> data.targetPeerId,
                        fromPeerId |-> data.targetPeerId])
             ELSE NoSent(cn)

\* handleMessengerLogic, cases 'offer', 'answer', 'candidate'
Forward(cn, ac, c, data) ==
  /\ conn' = cn
  /\ appClients' = ac
  /\ UNCHANGED <<pendingMatches, timers, find>>
  /\ sent' = IF /\ data.targetPeerId # None
                /\ data.targetPeerId \in DOMAIN ac["cudi-messenger"]
             THEN Send(cn, NoSent(cn), ac["cudi-messenger"][data.targetPeerId],
                       [type |-> data.type, targetPeerId |-> data.targetPeerId,
                        fromPeerId |-> cn[c].peerId])
             ELSE NoSent(cn)

handleMessengerLogic(cn, c, data) ==
  LET ac == WithNamespace(appClients)
  IN CASE data.type = "register" -> Register(cn, ac, c, data)
       [] data.type = "find_peer" -> FindPeer(cn, ac, c, data)
       [] data.type \in {"offer", "answer", "candidate"} -> Forward(cn, ac, c, data)
       [] OTHER -> /\ conn' = cn
                   /\ appClients' = ac
                   /\ sent' = NoSent(cn)
                   /\ UNCHANGED <<pendingMatches, timers, find>>

\* an expiry that deletes nothing
ExpireMatchNever(pm, target, ws) == pm

\* line 146: if (pendingMatches.get(target) === ws) pendingMatches.delete(target)
ExpireMatch(pm, target, ws) ==
  IF target \in DOMAIN pm /\ pm[target] = ws THEN MapDelete(pm, target) ELSE pm

\* the setTimeout callback of a find_peer miss (lines 145-147)
TimerFire(t) ==
  /\ BagIn(t, timers)
  /\ t.due <= now
  /\ timers' = timers (-) SetToBag({t})
  /\ pendingMatches' = ExpireMatch(pendingMatches, t.target, t.ws)
  /\ sent' = NoSent(conn)
  /\ ev' = NoEv
  /\ big' = NoWs
  /\ UNCHANGED <<now, conn, connectionsPerIP, roomVars, appClients, find,
                 recent, nframes, hbVars>>

\* ------------------------------------------------------------------- clock
Min(a, b) == IF a <= b THEN a ELSE b

\* the time of the earliest timer not run yet, or limit if there is none
NextDue(limit) ==
  IF BagToSet(timers) = {} THEN limit
  ELSE CHOOSE t \in {u.due : u \in BagToSet(timers)} :
         \A v \in {u.due : u \in BagToSet(timers)} : t <= v

\* Date.now() advances by d, but not past a timer that is due
Tick(d) ==
  /\ now' = Min(now + d, NextDue(now + d))
  /\ now' > now
  /\ sent' = NoSent(conn)
  /\ ev' = NoEv
  /\ big' = NoWs
  /\ UNCHANGED <<conn, connectionsPerIP, roomVars, dirVars, recent, nframes,
                 hbVars>>

\* -------------------------------------------------------- liveness monitor
\* ws.on('pong', heartbeat): a pong of connection c arrives
Pong(c) ==
  /\ c \in Conns
  /\ conn[c].admitted
  /\ IsOpen(conn, c)
  /\ conn' = [conn EXCEPT ![c].isAlive = TRUE]
  /\ live' = [live EXCEPT ![c].ponged = TRUE, ![c].quiet = sweeps]
  /\ sent' = NoSent(conn)
  /\ ev' = NoEv
  /\ big' = NoWs
  /\ UNCHANGED <<now, connectionsPerIP, roomVars, dirVars, recent, nframes,
                 sweeps>>

\* the time of the next run of the setInterval callback
SweepDue == (sweeps + 1) * HEARTBEAT_INTERVAL

\* a test that finds every connection alive
UnansweredNever(isAlive) == FALSE

\* line 184: !ws.isAlive
Unanswered(isAlive) == ~isAlive

\* the setInterval callback (lines 182-188) over wss.clients, the connections
\* whose 'close' has not been emitted: ws.terminate() or isAlive = false and
\* ws.ping()
Sweep ==
  /\ now = SweepDue
  /\ sweeps' = sweeps + 1
  /\ conn' = [c \in Conns |->
               IF conn[c].readyState = "CLOSED" THEN conn[c]
               ELSE IF Unanswered(conn[c].isAlive)
                    THEN [conn[c] EXCEPT !.readyState = "CLOSING"]
                    ELSE [conn[c] EXCEPT !.isAlive = FALSE]]
  /\ live' = [c \in Conns |->
               IF conn[c].readyState = "CLOSED" THEN live[c]
               ELSE IF Unanswered(conn[c].isAlive)
                    THEN [live[c] EXCEPT !.probed = FALSE,
                                         !.reaped = @ \/ IsOpen(conn, c)]
                    ELSE [live[c] EXCEPT !.probed = IsOpen(conn, c),
                                         !.ponged = FALSE]]
  /\ sent' = NoSent(conn)
  /\ ev' = NoEv
  /\ big' = NoWs
  /\ UNCHANGED <<now, connectionsPerIP, roomVars, dirVars, recent, nframes>>

\* --------------------------------------------------------- message handler
\* history: the arrival times of the frames of the RateWindow ms before now
Recent(c) == SelectSeq(recent[c], LAMBDA t : now - t <= RateWindow)

\* a budget test that lets one frame too many through
OverBudgetLate(msgCount) == msgCount > RateBudget + 1

\* line 36: ++ws.msgCount > 50
OverBudget(msgCount) == msgCount > RateBudget

\* a size test that lets every frame through
TooBigNever(length) == FALSE

\* line 40: messageString.length > MAX_MESSAGE_SIZE
TooBig(length) == length > MAX_MESSAGE_SIZE

\* ws.on('message') for one frame f of connection c
OnMessage(c, f) ==
  /\ c \in Conns
  /\ conn[c].admitted
  /\ IsOpen(conn, c)
  /\ recent' = [recent EXCEPT ![c] = Append(Recent(c), now)]
  /\ nframes' = nframes + 1
  /\ big' = IF f.len > MAX_MESSAGE_SIZE THEN c ELSE NoWs
  /\ UNCHANGED <<now, connectionsPerIP, hbVars>>
  /\ LET reset == now - conn[c].msgTs > RateWindow
         msgTs == IF reset THEN now ELSE conn[c].msgTs
         msgCount == (IF reset THEN 0 ELSE conn[c].msgCount) + 1
         cn == [conn EXCEPT ![c].msgTs = msgTs, ![c].msgCount = msgCount]
     IN IF OverBudget(msgCount)
        THEN /\ conn' = [cn EXCEPT ![c].readyState = "CLOSING",
                                   ![c].closeCode = RATE_CLOSE]
             /\ sent' = NoSent(cn)
             /\ ev' = NoEv
             /\ UNCHANGED <<roomVars, dirVars>>
        ELSE IF TooBig(f.len)
        THEN /\ conn' = [cn EXCEPT ![c].readyState = "CLOSING",
                                   ![c].closeCode = SIZE_CLOSE]
             /\ sent' = NoSent(cn)
             /\ ev' = NoEv
             /\ UNCHANGED <<roomVars, dirVars>>
        ELSE IF ~f.json
        THEN /\ conn' = cn
             /\ sent' = NoSent(cn)
             /\ ev' = NoEv
             /\ UNCHANGED <<roomVars, dirVars>>
        ELSE IF f.appType \in {"cloaks", "cudi-sync"}
        THEN /\ handleCloakLogic(cn, c, f)
             /\ UNCHANGED dirVars
        ELSE IF f.appType = "cudi-messenger"
        THEN /\ handleMessengerLogic(cn, c, f)
             /\ ev' = IF f.type \in {"offer", "answer", "candidate"}
                      THEN [op |-> "forward", ws |-> c, type |-> f.type,
                            target |-> f.targetPeerId]
                      ELSE NoEv
             /\ UNCHANGED roomVars
        ELSE /\ conn' = cn
             /\ sent' = NoSent(cn)
             /\ ev' = NoEv
             /\ UNCHANGED <<roomVars, dirVars>>

\* ------------------------------------------------------------------ frames
Frame(appType, type, room, password, alias, peerId, targetPeerId) ==
  [len |-> SmallLen, json |-> TRUE, appType |-> appType, type |-> type,
   room |-> room, password |-> password, alias |-> alias, peerId |-> peerId,
   targetPeerId |-> targetPeerId]

JoinFrames ==
  {Frame("cloaks", "join", r, p, a, None, None) :
     r \in Rooms, p \in Passwords \cup {None}, a \in Aliases}

MessengerFrames ==
  {Frame("cudi-messenger", "register", None, None, None, x, None) : x \in PeerIds}
  \cup {Frame("cudi-messenger", "find_peer", None, None, None, None, x) : x \in PeerIds}
  \cup {Frame("cudi-messenger", "offer", None, None, None, None, x) : x \in PeerIds}

\* registrations, and lookups of X
MatchFrames ==
  {f \in MessengerFrames : f.type = "register" \/ (f.type = "find_peer" /\ f.targetPeerId = "X")}

\* joins to r1 with or without a password, joins to r2 without one
FirstJoinFrames ==
  {f \in JoinFrames : f.password \in {None, "p"} /\ (f.room = "r2" => f.password = None)}

\* ----------------------------------------------------------- specification
Init ==
  /\ now = 0
  /\ conn = <<>>
  /\ connectionsPerIP = <<>>
  /\ cloakRooms = <<>>
  /\ roomObj = <<>>
  /\ appClients = <<>>
  /\ pendingMatches = <<>>
  /\ timers = EmptyBag
  /\ tasks = EmptyBag
  /\ sent = <<>>
  /\ ev = NoEv
  /\ joinedLog = [r \in Rooms |-> {}]
  /\ origPw = [r \in Rooms |-> NoRoom]
  /\ find = [x \in PeerIds |-> NoFind]
  /\ recent = <<>>
  /\ nframes = 0
  /\ big = NoWs
  /\ sweeps = 0
  /\ live = <<>>

Left == {c \in Conns : ~IsOpen(conn, c)}

Connect == \E ip \in IPs : Cardinality(Conns) < MaxConns /\ Connection(ip)

Receive ==
  \E c \in Conns, f \in JoinFrames :
     /\ nframes < MaxFrames
     /\ OnMessage(c, f)

Resume ==
  \E t \in BagToSet(tasks) : ResumeHash(t) \/ ResumeCompare(t)

Closing == \E c \in Conns : Cardinality(Left) < MaxCloses /\ BeginClose(c)

Closed == \E c \in Conns : SocketClosed(c)

Next == Connect \/ Receive \/ Resume \/ Closing \/ Closed

Spec == Init /\ [][Next]_vars

\* joins only: the runs in which no connection ever closes
JoinConnect == \E ip \in IPs : Cardinality(Conns) < JoinMaxConns /\ Connection(ip)

JoinReceive ==
  \E c \in Conns, f \in FirstJoinFrames :
     /\ nframes < JoinMaxFrames
     /\ OnMessage(c, f)

NextJoin == JoinConnect \/ JoinReceive \/ Resume

SpecJoin == Init /\ [][NextJoin]_vars

\* the peer directory domain, with the clock and the expiry timers
DirSteps == {150000, 150001}

DirConnect == \E ip \in IPs : Cardinality(Conns) < DirMaxConns /\ Connection(ip)

DirReceive ==
  \E c \in Conns, f \in MatchFrames :
     /\ nframes < DirMaxFrames
     /\ OnMessage(c, f)

DirClosing == \E c \in Conns : Cardinality(Left) < DirMaxCloses /\ BeginClose(c)

DirTick == \E d \in DirSteps : Tick(d) /\ now' <= DirMaxTime

Expire == \E t \in BagToSet(timers) : TimerFire(t)

NextDir == DirConnect \/ DirReceive \/ DirClosing \/ Closed \/ DirTick \/ Expire

SpecDir == Init /\ [][NextDir]_vars

\* lookups of X and registrations of X
TtlConnect == \E ip \in IPs : Cardinality(Conns) < TtlMaxConns /\ Connection(ip)

TtlReceive ==
  \E c \in Conns, f \in {g \in MatchFrames : "X" \in {g.peerId, g.targetPeerId}} :
     /\ nframes < TtlMaxFrames
     /\ OnMessage(c, f)

TtlTick == \E d \in DirSteps : Tick(d) /\ now' <= TtlMaxTime

\* at most one connection leaves
TtlClosing == \E c \in Conns : Left = {} /\ BeginClose(c)

NextTtl == TtlConnect \/ TtlReceive \/ TtlTick \/ Expire \/ TtlClosing \/ Closed

SpecTtl == Init /\ [][NextTtl]_vars

\* the rate limiter: one connection, frames no domain handles, the clock
RateSteps == {401, 600}

OtherFrames == {Frame("other", "ping", None, None, None, None, None)}

RateConnect == \E ip \in IPs : Conns = {} /\ Connection(ip)

RateReceive == \E c \in Conns, f \in OtherFrames : OnMessage(c, f)

RateTick == \E d \in RateSteps : Tick(d) /\ now' <= RateMaxTime

NextRate == RateConnect \/ RateReceive \/ RateTick \/ Closing \/ Closed

SpecRate == Init /\ [][NextRate]_vars

\* admission: connection attempts and closes, no frames; at most one
\* connection comes from the second address
FromIP(a) == {c \in Conns : conn[c].ip = a}

AdmConnect ==
  \E ip \in AdmIPs :
     /\ Cardinality(Conns) < AdmMaxConns
     /\ ip # "10.0.0.1" => FromIP(ip) = {}
     /\ Connection(ip)

AdmClosing ==
  \E c \in Conns :
     /\ Cardinality({d \in Left : conn[d].admitted}) < AdmMaxCloses
     /\ BeginClose(c)

NextAdm == AdmConnect \/ AdmClosing \/ Closed

SpecAdm == Init /\ [][NextAdm]_vars

\* the password gate of one room: two connections, joins with either
\* password or none, the suspensions on bcrypt, and at most one connection
\* leaving
GateFrames == {f \in JoinFrames : f.room = "r1"}

GateConnect == \E ip \in IPs : (\A c, d \in Conns : c = d) /\ Connection(ip)

GateReceive ==
  \E c \in Conns, f \in GateFrames :
     /\ nframes < GateMaxFrames
     /\ OnMessage(c, f)

NextGate == GateConnect \/ GateReceive \/ Resume \/ TtlClosing \/ Closed

SpecGate == Init /\ [][NextGate]_vars

\* signals: joins to rooms without a password, signals to the room, to the
\* first or to the second connection, and at most one connection leaving
SignalFrames ==
  {Frame("cloaks", "signal", None, None, None, None, t) :
     t \in {None, IdOf(1), IdOf(2)}}

OpenJoinFrames == {f \in JoinFrames : f.password = None}

SigConnect == \E ip \in IPs : Cardinality(Conns) < SigMaxConns /\ Connection(ip)

SigReceive ==
  \E c \in Conns, f \in OpenJoinFrames \cup SignalFrames :
     /\ nframes < SigMaxFrames
     /\ OnMessage(c, f)

NextSig == SigConnect \/ SigReceive \/ TtlClosing \/ Closed

SpecSig == Init /\ [][NextSig]_vars

\* forwarding: registrations, offers and answers, and at most one connection
\* leaving
FwdFrames ==
  {f \in MessengerFrames : f.type \in {"register", "offer"}}
  \cup {Frame("cudi-messenger", "answer", None, None, None, None, "X"),
        Frame("cudi-messenger", "candidate", None, None, None, None, None)}

FwdConnect == \E ip \in IPs : Cardinality(Conns) < FwdMaxConns /\ Connection(ip)

FwdReceive ==
  \E c \in Conns, f \in FwdFrames :
     /\ nframes < FwdMaxFrames
     /\ OnMessage(c, f)

NextFwd == FwdConnect \/ FwdReceive \/ TtlClosing \/ Closed

SpecFwd == Init /\ [][NextFwd]_vars

\* the liveness monitor: connections, pongs, the clock up to the next sweep,
\* the sweeps, and at most one connection leaving by itself
HbSteps == {10000, 20000}

HbConnect == \E ip \in IPs : Cardinality(Conns) < HbMaxConns /\ Connection(ip)

HbPong == \E c \in Conns : Pong(c)

HbTick == \E d \in HbSteps : Tick(d) /\ now' <= SweepDue /\ now' <= HbMaxTime

HbClosing ==
  \E c \in Conns : (\A d \in Left : live[d].reaped) /\ BeginClose(c)

NextHb == HbConnect \/ HbPong \/ HbTick \/ Sweep \/ HbClosing \/ Closed

SpecHb == Init /\ [][NextHb]_vars

\* the size check: two connections, frames of 65 KiB and frames of a few
\* bytes that the domains would handle, and filler frames of the first
\* connection while it is the only one
SizeSmall ==
  {Frame("cloaks", "join", "r1", None, None, None, None),
   Frame("cudi-messenger", "register", None, None, None, "X", None),
   Frame("cudi-messenger", "find_peer", None, None, None, None, "Y")}

SizeBig == {[f EXCEPT !.len = BigLen] : f \in SizeSmall}

SizeConnect == \E ip \in IPs : (\A c, d \in Conns : c = d) /\ Connection(ip)

SizeReceive ==
  \E c \in Conns, f \in SizeSmall \cup SizeBig :
     /\ f \in SizeSmall => conn[c].msgCount < SizeMaxFrames
     /\ OnMessage(c, f)

SizeFill ==
  \E c \in Conns, f \in OtherFrames :
     /\ \A d \in Conns : c = d
     /\ OnMessage(c, f)

NextSize == SizeConnect \/ SizeReceive \/ SizeFill \/ Closed

SpecSize == Init /\ [][NextSize]_vars

\* ------------------------------------------------------------- properties
Joined(c) == SelectSeq(sent[c], LAMBDA m : m.type = "joined")

PeerJoinedFrom(d, c) ==
  SelectSeq(sent[d], LAMBDA m : m.type = "peer_joined" /\ m.peerId = IdOf(c))

PeerLeftFrom(s, d, c) ==
  SelectSeq(s[d], LAMBDA m : m.type = "peer_left" /\ m.peerId = IdOf(c))

Members(r) == Range(roomObj[cloakRooms[r]].clients)

NoCloseYet == \A c \in Conns : IsOpen(conn, c)

\* C1: when a connection that has not joined the room before joins a room
\* that was created without a password, and no connection has closed, it is
\* sent exactly one `joined` whose peers are exactly the connections sent
\* `joined` for that room earlier, each of those is sent exactly one
\* `peer_joined` for it, and nobody else (the joiner included) is sent one.
C1_JoinedListsEarlierMembers ==
  (ev.op = "accept" /\ ev.nopw /\ ev.ws \notin ev.prior /\ NoCloseYet) =>
    /\ Len(Joined(ev.ws)) = 1
    /\ Joined(ev.ws)[1].room = ev.room
    /\ Joined(ev.ws)[1].yourId = IdOf(ev.ws)
    /\ Len(Joined(ev.ws)[1].peers) = Cardinality(ev.prior)
    /\ {p.id : p \in Range(Joined(ev.ws)[1].peers)} = {IdOf(d) : d \in ev.prior}
    /\ \A d \in Conns :
         Len(PeerJoinedFrom(d, ev.ws)) = IF d \in ev.prior THEN 1 ELSE 0

\* C1 witness: a third connection joins a password-free room after two others
C1_Witness ==
  /\ ev.op = "accept" /\ ev.nopw /\ ev.ws \notin ev.prior /\ NoCloseYet
  /\ Cardinality(ev.prior) = 2
  /\ Len(Joined(ev.ws)) = 1

\* C2: a join that arrives while a room created with a password exists, and
\* finishes while that room still exists, is accepted exactly when it
\* presents the password the room was created with.
C2_OnlyOriginalPasswordAccepted ==
  (ev.op \in {"accept", "reject"} /\ ~ev.created /\ ev.arr \in Passwords
     /\ ev.orig = ev.arr) =>
    (ev.op = "accept" <=> ev.password = ev.orig)

\* C3: while a room id stays in the room table, the record stored under it
\* and its password digest never change.
C3_DigestImmutable ==
  [][\A r \in DOMAIN cloakRooms \cap DOMAIN cloakRooms' :
       /\ cloakRooms'[r] = cloakRooms[r]
       /\ roomObj'[cloakRooms'[r]].password = roomObj[cloakRooms[r]].password]_vars

\* C4: once no join handler is suspended, every room retained in the table
\* has a member whose close has not been processed.
C4_NoDeadRoomRetained ==
  tasks = EmptyBag =>
    \A r \in DOMAIN cloakRooms : \E c \in Members(r) : conn[c].readyState # "CLOSED"

\* C8: when the close of a connection is processed, every other open member
\* of every room whose member set contains it is sent exactly one `peer_left`
\* carrying its id, and the closed connection is sent nothing.
C8_PeerLeftToEveryRoom ==
  [][\A c \in Conns :
       (conn[c].admitted /\ conn[c].readyState = "CLOSING"
          /\ conn'[c].readyState = "CLOSED") =>
         /\ sent'[c] = <<>>
         /\ \A r \in DOMAIN cloakRooms :
              c \in Members(r) =>
                \A d \in Members(r) \ {c} :
                   IsOpen(conn, d) => Len(PeerLeftFrom(sent', d, c)) = 1]_vars

\* the peer directory, if the messenger namespace exists
Directory == IF "cudi-messenger" \in DOMAIN appClients
             THEN appClients["cudi-messenger"] ELSE <<>>

\* C10: every connection is in the member set of at most one room and is the
\* value of at most one peer-directory entry.
C10_OneRoomOnePeerId ==
  \A c \in Conns :
     /\ Cardinality({r \in DOMAIN cloakRooms : c \in Members(r)}) <= 1
     /\ Cardinality({x \in DOMAIN Directory : Directory[x] = c}) <= 1

Registered(c, x) ==
  sent[c] # <<>> /\ Head(sent[c]) = [type |-> "registered", peerId |-> x]

PeerFound(c) == SelectSeq(sent[c], LAMBDA m : m.type = "peer_found")

\* C5: when the first register(X) after a find_peer(X) miss of an open
\* requester R is handled before the TTL has elapsed, by another connection T, R and T
\* are each sent exactly one `peer_found` and the pending match is gone; a
\* further register(X) sends R none.
C5_MatchResolvedOnce ==
  \A x \in PeerIds, t \in Conns :
     LET r == find[x].req
     IN (Registered(t, x) /\ r # NoWs /\ r # t /\ IsOpen(conn, r)
           /\ now - find[x].at < MatchTTL) =>
          IF find[x].regs = 1
          THEN /\ Len(PeerFound(r)) = 1
               /\ PeerFound(r)[1].peerId = x
               /\ Len(PeerFound(t)) = 1
               /\ x \notin DOMAIN pendingMatches
          ELSE Len(PeerFound(r)) = 0

\* C6: a register(X) handled more than the TTL after the last find_peer(X)
\* miss (the creation of the pending match for X) sends no `peer_found`.
C6_ExpiredMatchNeverResolved ==
  \A x \in PeerIds, t \in Conns :
     (Registered(t, x) /\ find[x].req # NoWs /\ now - find[x].at > MatchTTL) =>
        \A c \in Conns : Len(PeerFound(c)) = 0

\* C6 witness: the first register(X) after a lookup comes after the TTL, by
\* another connection, while the requester is still open
C6_Witness ==
  \E x \in PeerIds, t \in Conns :
     /\ Registered(t, x)
     /\ find[x].req \notin {NoWs, t}
     /\ find[x].regs = 1
     /\ now - find[x].at > MatchTTL
     /\ IsOpen(conn, find[x].req)

RateClosed(c) == conn[c].closeCode = RATE_CLOSE /\ ~IsOpen(conn, c)

\* the frames of recent[c] that arrived in the limiter's current window
InWindow(c) == SelectSeq(recent[c], LAMBDA t : t >= conn[c].msgTs)

\* C7 as stated: 51 frames within any 1000 ms close the connection with
\* 1011, and a connection is closed with 1011 only after 51 frames within
\* 1000 ms.
C7_AnyInterval ==
  \A c \in Conns :
     /\ Len(recent[c]) > RateBudget => RateClosed(c)
     /\ conn[c].closeCode = RATE_CLOSE => Len(recent[c]) > RateBudget

\* C7 amended: 51 frames within one window of the limiter (a window opens
\* at admission, or with the first frame that arrives more than 1000 ms after
\* the current window opened) close the connection with 1011 on the 51st
\* frame, and a connection is closed with 1011 only after 51 frames within
\* 1000 ms.
C7_FixedWindow ==
  \A c \in Conns :
     /\ Len(InWindow(c)) > RateBudget => RateClosed(c) /\ Len(InWindow(c)) = RateBudget + 1
     /\ conn[c].closeCode = RATE_CLOSE => Len(recent[c]) > RateBudget

\* C7 witness: the 51st frame of a window opened after admission closed the
\* connection
C7_Witness ==
  \E c \in Conns :
     RateClosed(c) /\ Len(InWindow(c)) = RateBudget + 1 /\ conn[c].msgTs > 0

Admitted(a) ==
  {c \in FromIP(a) : conn[c].admitted /\ conn[c].readyState # "CLOSED"}

Counter(a) == IF a \in DOMAIN connectionsPerIP THEN connectionsPerIP[a] ELSE 0

C9_Accounting ==
  \A a \in AdmIPs :
     /\ Cardinality(Admitted(a)) <= MaxPerIP
     /\ Counter(a) >= Cardinality({c \in Admitted(a) : IsOpen(conn, c)})
     /\ Counter(a) = Cardinality(Admitted(a))
     /\ (\A c \in FromIP(a) : conn[c].readyState = "CLOSED") =>
          a \notin DOMAIN connectionsPerIP

C9_Attempt ==
  \A c \in Conns' \ Conns :
     IF Cardinality(Admitted(conn'[c].ip)) >= MaxPerIP
     THEN ~conn'[c].admitted /\ ~IsOpen(conn', c)
     ELSE conn'[c].admitted /\ IsOpen(conn', c)

\* C9: at most 20 connections of an address are admitted and not closed, the
\* counter of an address equals their number (so it never undercounts the
\* open ones), its key is absent once all its connections have closed, and a
\* connection attempt is terminated exactly when 20 are admitted and not
\* closed.
C9_AdmissionSymmetric == []C9_Accounting /\ [][C9_Attempt]_vars

\* C9 witness: an attempt was terminated at the ceiling and, after a close,
\* a later attempt from the same address was admitted again
C9_Witness ==
  \E c, d \in Conns :
     /\ c < d
     /\ conn[c].ip = conn[d].ip
     /\ ~conn[c].admitted
     /\ conn[d].admitted /\ IsOpen(conn, d)
     /\ Cardinality(Admitted(conn[c].ip)) = MaxPerIP

\* C11: every peer-directory entry refers to a connection whose close has not
\* been processed.
C11_NoDanglingDirectoryEntry ==
  \A x \in DOMAIN Directory : conn[Directory[x]].readyState # "CLOSED"

\* C12: no pending match has a requester whose close has been processed,
\* whether or not the requester ever registered a peer id.
C12_NoPendingOfClosedRequester ==
  \A x \in DOMAIN pendingMatches : conn[pendingMatches[x]].readyState # "CLOSED"

\* a step of an expiry timer that removes the pending match of x (a register
\* and a close remove pending matches without consuming a timer)
ExpiryRemoves(x) ==
  /\ timers' # timers
  /\ x \in DOMAIN pendingMatches
  /\ x \notin DOMAIN pendingMatches'

\* C17: an expiry timer removes a pending match only 5 minutes or more after
\* the find_peer that created that pending match.
C17_ExpiryOnlyOwnMatch ==
  [][\A x \in PeerIds : ExpiryRemoves(x) => now - find[x].at >= MatchTTL]_vars

\* C20: processing the close of a connection leaves every peer-directory
\* entry that maps to another connection in place.
C20_CloseKeepsOthersEntries ==
  [][\A c \in Conns :
       (conn[c].readyState = "CLOSING" /\ conn'[c].readyState = "CLOSED") =>
         \A x \in DOMAIN Directory :
            Directory[x] # c =>
              /\ x \in DOMAIN Directory'
              /\ Directory'[x] = Directory[x]]_vars

\* C13 as stated: a frame of more than 64 KiB closes the connection with
\* code 1009, changes no room, directory or pending-match state and sends
\* nothing to anyone, whatever the state of the rate limiter.
C13_OversizeClosed1009 ==
  [][\A c \in Conns :
       big' = c =>
         /\ ~IsOpen(conn', c)
         /\ conn'[c].closeCode = SIZE_CLOSE
         /\ UNCHANGED <<roomVars, dirVars>>
         /\ \A d \in Conns : sent'[d] = <<>>]_vars

\* C13 amended: a frame of more than 64 KiB is never parsed or routed (it
\* changes no room, directory or pending-match state and sends nothing to
\* anyone) and closes the connection: with code 1009 when the frame is within
\* the budget of the rate limiter's window, with code 1011 when it is not.
C13_OversizeNeverRouted ==
  [][\A c \in Conns :
       big' = c =>
         /\ ~IsOpen(conn', c)
         /\ conn'[c].closeCode =
              IF conn'[c].msgCount > RateBudget THEN RATE_CLOSE ELSE SIZE_CLOSE
         /\ UNCHANGED <<roomVars, dirVars>>
         /\ \A d \in Conns : sent'[d] = <<>>]_vars

\* C13 witness: a member of a room, registered and with a pending match, was
\* closed with 1009 by a frame of more than 64 KiB while another member of
\* its room is open
C13_Witness ==
  \E c, d \in Conns :
     /\ big = c
     /\ conn[c].closeCode = SIZE_CLOSE
     /\ c # d /\ IsOpen(conn, d)
     /\ "r1" \in DOMAIN cloakRooms /\ {c, d} \subseteq Members("r1")
     /\ "X" \in DOMAIN Directory
     /\ "Y" \in DOMAIN pendingMatches /\ pendingMatches["Y"] = c

\* the join finished by this step was refused: the caller, if open, is sent
\* one error naming the reason and nobody else is sent anything; no member
\* set, the caller's room tag and its readyState do not change
RejectEffects ==
  LET c == ev'.ws
  IN /\ sent'[c] = IF IsOpen(conn, c)
                   THEN <<[type |-> "error",
                           message |-> IF ev'.password = None
                                       THEN "Password required"
                                       ELSE "Wrong password"]>>
                   ELSE <<>>
     /\ \A d \in Conns \ {c} : sent'[d] = <<>>
     /\ cloakRooms' = cloakRooms
     /\ \A r \in DOMAIN cloakRooms :
          roomObj'[cloakRooms'[r]].clients = roomObj[cloakRooms[r]].clients
     /\ conn'[c].room = conn[c].room
     /\ conn'[c].readyState = conn[c].readyState

\* C14: a join to a room that exists with a password is accepted only with
\* the password of the record it is checked against; a refused join sends one
\* `error` to the caller and nothing to anyone else, changes no member set
\* and not the caller's room tag, and leaves the caller's connection open.
C14_RejectedJoinOnlyErrors ==
  [][/\ ev'.op = "reject" => RejectEffects
     /\ (ev'.op = "accept" /\ ~ev'.created /\ ev'.digest # None) =>
          (ev'.password # None /\ Hash(ev'.password) = ev'.digest)
     /\ (ev'.op = "reject") =>
          (ev'.digest # None /\ Hash(ev'.password) # ev'.digest)]_vars

\* C14 witness: an open caller was refused for a wrong password while another
\* open connection is a member of the room
C14_Witness ==
  /\ ev.op = "reject"
  /\ ev.password # None
  /\ IsOpen(conn, ev.ws)
  /\ ev.room \in DOMAIN cloakRooms
  /\ \E d \in Members(ev.room) : d # ev.ws /\ IsOpen(conn, d)

\* C15: a signal of a connection that is in no room sends nothing and
\* changes nothing; any other signal is delivered only to open members of the
\* room the sender is tagged with, never to the sender, only to the member
\* whose id is the target when there is one, once, with the sender's id.
C15_SignalOnlyToRoomMembers ==
  [][ev'.op = "signal" =>
       LET s == ev'.ws
           r == conn[s].room
       IN /\ UNCHANGED <<roomVars, dirVars>>
          /\ \A d \in Conns :
               sent'[d] # <<>> =>
                 /\ r # None
                 /\ r \in DOMAIN cloakRooms
                 /\ d \in Members(r)
                 /\ IsOpen(conn, d)
                 /\ d # s
                 /\ ev'.target # None => IdOf(d) = ev'.target
                 /\ sent'[d] = <<[type |-> "signal", targetPeerId |-> ev'.target,
                                  fromPeerId |-> IdOf(s)]>>]_vars

\* C15 witness: in a room of three open members a signal with a target was
\* delivered to the target and to nobody else
C15_Witness ==
  /\ ev.op = "signal"
  /\ ev.target # None
  /\ conn[ev.ws].room \in DOMAIN cloakRooms
  /\ Cardinality({d \in Members(conn[ev.ws].room) : IsOpen(conn, d)}) = 3
  /\ Cardinality({d \in Conns : sent[d] # <<>>}) = 1

\* C16: an offer, answer or candidate is delivered, once and with the
\* sender's registered peer id as fromPeerId, to the connection the directory
\* maps its target to when that connection is open, and to nobody else; with
\* no target, an unregistered target or a target that is not open nothing is
\* sent to anyone; the directory, the pending matches, the rooms and every
\* connection's peer id, room tag and readyState do not change.
C16_ForwardToDirectoryTarget ==
  [][ev'.op = "forward" =>
       LET s == ev'.ws
           x == ev'.target
           hit == x \in DOMAIN Directory /\ IsOpen(conn, Directory[x])
       IN /\ \A d \in Conns :
               sent'[d] = IF hit /\ d = Directory[x]
                          THEN <<[type |-> ev'.type, targetPeerId |-> x,
                                  fromPeerId |-> conn[s].peerId]>>
                          ELSE <<>>
          /\ Directory' = Directory
          /\ UNCHANGED <<pendingMatches, timers, roomVars>>
          /\ \A d \in Conns :
               /\ conn'[d].peerId = conn[d].peerId
               /\ conn'[d].room = conn[d].room
               /\ conn'[d].readyState = conn[d].readyState]_vars

\* C16 witness: a registered sender's message was forwarded to another
\* connection
C16_Witness ==
  /\ ev.op = "forward"
  /\ conn[ev.ws].peerId # None
  /\ \E d \in Conns \ {ev.ws} : sent[d] # <<>>

\* no open connection has been silent for more than two sweep periods: the
\* sweeps run every HEARTBEAT_INTERVAL ms, and a connection whose last pong
\* (or admission) came after k sweeps, that is at k * HEARTBEAT_INTERVAL or
\* later, is open no later than the time of sweep k + 2
C18_Timely ==
  /\ now >= sweeps * HEARTBEAT_INTERVAL
  /\ now <= SweepDue
  /\ \A c \in Conns :
       (conn[c].admitted /\ IsOpen(conn, c)) =>
          now <= (live[c].quiet + 2) * HEARTBEAT_INTERVAL

\* a sweep terminates an open connection exactly when the previous sweep
\* probed it and no pong of it arrived since; no other step terminates for
\* the monitor
C18_SweepStep ==
  \A c \in Conns :
     /\ (sweeps' # sweeps /\ conn[c].admitted /\ IsOpen(conn, c)) =>
          (~IsOpen(conn', c) <=> (live[c].probed /\ ~live[c].ponged))
     /\ (live'[c].reaped /\ ~live[c].reaped) =>
          (sweeps' # sweeps /\ live[c].probed /\ ~live[c].ponged)

\* C18: a connection that does not answer a probe is terminated at the next
\* sweep, so no open connection stays silent for more than two sweep periods;
\* a connection that answered the probe, or was not probed yet, is not
\* terminated by the sweep.
C18_LivenessSweep == []C18_Timely /\ [][C18_SweepStep]_vars

\* C18 witness: after two sweeps or more, one connection was terminated by
\* the monitor while a connection admitted before the first sweep is open
C18_Witness ==
  \E c, d \in Conns :
     /\ live[c].reaped
     /\ conn[d].admitted /\ IsOpen(conn, d)
     /\ live[d].born = 0
     /\ sweeps >= 2

\* every connection that was sent `joined` for a room id and whose close has
\* not been processed is in the member set stored under that room id
C19_JoinedIsMember ==
  \A r \in Rooms :
     \A c \in joinedLog[r] :
        conn[c].readyState # "CLOSED" =>
          (r \in DOMAIN cloakRooms /\ c \in Members(r))

\* no step adds a connection whose close has been processed to a member set
C19_NoLateAdd ==
  \A c \in Conns :
     conn[c].readyState = "CLOSED" =>
        \A i \in DOMAIN roomObj' :
           c \in Range(roomObj'[i].clients) =>
             (i \in DOMAIN roomObj /\ c \in Range(roomObj[i].clients))

\* C19: under every interleaving of joins, their suspensions and closes, a
\* connection sent `joined` for a room id and not closed is a member of the
\* record stored under that id, and a connection whose close was processed
\* is never added to a member set.
C19_JoinRacesKeepMembership == []C19_JoinedIsMember /\ [][C19_NoLateAdd]_vars

====
